---- MODULE Spec2Model ----
(***************************************************************************)
(* Search-result reconciliation layer of the lobbying-disclosure app:      *)
(* the Senate LDA data sources (SenateLDADataSource,                       *)
(* EnhancedSenateLDADataSource, ImprovedSenateLDADataSource), the mock     *)
(* generator and the web layer's show_results fallback chain.              *)
(*                                                                         *)
(* One search_filings call is one action: the answers of the upstream API  *)
(* to the requests of that call are drawn with \E, the handler is computed *)
(* as the code computes it, and the returned tuple is left in `ret` until  *)
(* the caller consumes it (Return).                                        *)
(***************************************************************************)
EXTENDS Integers, Sequences, FiniteSets, TLC

VARIABLES
    pc,             \* "idle" | "returned": position of the (single-threaded) caller
    call,           \* arguments of the call in progress / just returned
    api,            \* what the upstream API answered to the requests of that call
    ret,            \* the returned tuple (results, total_count, pagination, error)
    use_mock_data,  \* ImprovedSenateLDADataSource.use_mock_data of app.senate_lda
    rng,            \* state of the process-global `random` module
    flashes,        \* flash() messages of the last show_results
    history,        \* one finished mock-generator call, kept to compare later ones with (observer)
    threads,        \* request threads inside _mock_search_results: each one's locals and position
    cache           \* utils/caching.py Cache: the files of cache_dir and the clock

vars == <<pc, call, api, ret, use_mock_data, rng, flashes, history, threads, cache>>

\* no request thread is running
NoThreads == <<>>

\* an empty cache directory at time 0
EmptyCache == [files |-> {}, now |-> 0]

-----------------------------------------------------------------------------
(* Bounds of the model *)

MaxResp == 1        \* records in the result list of one upstream response
MaxPage == 2        \* requested page is in 1..MaxPage
MaxPageSize == 2    \* requested page_size is in 1..MaxPageSize
ThreadPageSize == 1 \* page_size of the two concurrent requests is in 1..ThreadPageSize
MaxSizeMb == 3      \* max_size_mb of the Cache
MaxClock == 3       \* time.time() is in 0..MaxClock
MaxData == 3        \* filings the API holds for one query

-----------------------------------------------------------------------------
(* Generic helpers *)

Min(a, b) == IF a < b THEN a ELSE b
Max(a, b) == IF a > b THEN a ELSE b

SeqsUpTo(S, n) == UNION {[1..k -> S] : k \in 0..n}

\* Python's (a + b - 1) // b for a >= 0, b > 0
CeilDiv(a, b) == (a + b - 1) \div b

\* Python slice s[lo:hi] with 0-based lo, exclusive hi, clamped to the list
PySlice(s, lo, hi) ==
    LET h == Min(hi, Len(s))
    IN  IF lo >= h THEN <<>> ELSE SubSeq(s, lo + 1, h)

RECURSIVE Concat(_)
Concat(ss) == IF ss = <<>> THEN <<>> ELSE Head(ss) \o Concat(Tail(ss))

\* None / null
Null == "null"
\* a key that the JSON object does not carry (dict.get yields its default)
NoKey == "<missing>"

-----------------------------------------------------------------------------
(* Dates.  An ISO string "YYYY-MM-DD" is the record [y, m, d]; the string   *)
(* "Mon DD, YYYY" produced by strftime("%b %d, %Y") is the tuple            *)
(* <<Mon, DD, YYYY>>; a datetime is compared through DateOrd.               *)

NoDate == [y |-> 0, m |-> 0, d |-> 0]
Unknown == <<"Unknown">>

MonthAbbr == <<"Jan", "Feb", "Mar", "Apr", "May", "Jun",
               "Jul", "Aug", "Sep", "Oct", "Nov", "Dec">>

MonthNumber(mon) == CHOOSE i \in 1..12 : MonthAbbr[i] = mon

\* datetime.strptime(date_value[:10], "%Y-%m-%d").strftime("%b %d, %Y")
Strftime(iso) == <<MonthAbbr[iso.m], iso.d, iso.y>>

\* datetime.strptime(date_str, "%b %d, %Y")
Strptime(s) == [y |-> s[3], m |-> MonthNumber(s[1]), d |-> s[2]]

\* the order of datetime values
DateOrd(dt) == dt.y * 10000 + dt.m * 100 + dt.d

\* datetime(1900, 1, 1), the "default old date for unknown dates"
SortSentinel == [y |-> 1900, m |-> 1, d |-> 1]

D1899 == [y |-> 1899, m |-> 12, d |-> 31]
D2023 == [y |-> 2023, m |-> 5, d |-> 1]
D2024 == [y |-> 2024, m |-> 1, d |-> 15]

-----------------------------------------------------------------------------
(* Upstream filing objects (raw JSON), a small set of shapes the API can    *)
(* send: with and without "id", "filing_uuid", "received_date",             *)
(* "dt_posted", "filing_year".                                              *)

RawFiling(id, uuid, received, posted, year) ==
    [id |-> id, filing_uuid |-> uuid, received_date |-> received,
     dt_posted |-> posted, filing_year |-> year, meta_is_mock |-> FALSE]

RawFilings ==
    { RawFiling("F1", "U2", D2023, D2023, 2023),
      RawFiling("F1", NoKey, NoDate, NoDate, 0),
      RawFiling("F2", "U1", D1899, NoDate, 2022),
      RawFiling(NoKey, NoKey, D2023, NoDate, 0),
      \* an upstream object that itself carries "meta": {"is_mock": true}
      [RawFiling(NoKey, "U1", NoDate, D2024, 2023) EXCEPT !.meta_is_mock = TRUE] }

\* What one request can be answered with: a status (or a transport exception),
\* and for a 200 the decoded JSON body.
Fail(status) == [status |-> status, shape |-> "none", count |-> 0, results |-> <<>>]
Paged(count, results) ==
    [status |-> 200, shape |-> "paged", count |-> count, results |-> results]

FailStatuses == {401, 404, 500}
Exception == -1      \* requests raised instead of answering

\* count fields an answer with result list rs can carry for a call with
\* page_size ps: none, the list's length, or more than one page's worth
CountsFor(rs, ps) == {0, Len(rs), ps + 1}

-----------------------------------------------------------------------------
(* EnhancedSenateLDADataSource *)

\* enhanced_senate_lda.py _process_filing
EnhancedProcessFiling(filing) ==
    [ id |-> IF filing.id # NoKey THEN filing.id
             ELSE IF filing.filing_uuid # NoKey THEN filing.filing_uuid
             ELSE "",
      filing_date |-> IF filing.received_date # NoDate
                      THEN Strftime(filing.received_date)
                      ELSE Unknown,
      filing_year |-> filing.filing_year,
      posted_date |-> NoDate,
      is_mock |-> FALSE ]

\* enhanced_senate_lda.py _should_include_filing (year rules; the calls of this
\* model leave issue_area, agency and amount_min empty)
EnhancedShouldIncludeFiling(filing, year_from, year_to) ==
    /\ ~(year_from # 0 /\ filing.filing_year # 0 /\ filing.filing_year < year_from)
    /\ ~(year_to # 0 /\ filing.filing_year # 0 /\ filing.filing_year > year_to)

\* the loop "for filing in results_data: ... all_results.append(filing_data)"
RECURSIVE EnhancedAccumulate(_, _, _)
EnhancedAccumulate(rs, year_from, year_to) ==
    IF rs = <<>> THEN <<>>
    ELSE LET fd == EnhancedProcessFiling(Head(rs))
             rest == EnhancedAccumulate(Tail(rs), year_from, year_to)
         IN  IF EnhancedShouldIncludeFiling(fd, year_from, year_to)
             THEN <<fd>> \o rest ELSE rest

\* enhanced_senate_lda.py _get_filing_date_for_sorting
EnhancedGetFilingDateForSorting(filing) ==
    IF filing.filing_date # Unknown
    THEN DateOrd(Strptime(filing.filing_date))
    ELSE DateOrd(SortSentinel)

\* "Remove duplicate results": unique_results / seen_ids
RECURSIVE EnhancedDedupFrom(_, _)
EnhancedDedupFrom(all, seen) ==
    IF all = <<>> THEN <<>>
    ELSE LET f == Head(all) IN
         IF f.id # "" /\ f.id \notin seen
         THEN <<f>> \o EnhancedDedupFrom(Tail(all), seen \cup {f.id})
         ELSE EnhancedDedupFrom(Tail(all), seen)

EnhancedDedup(all) == EnhancedDedupFrom(all, {})

\* list.sort(key=..., reverse=True) on <<key, record>> pairs: descending by
\* key, records of equal key keep their order
RECURSIVE InsertDesc(_, _)
InsertDesc(x, sorted) ==
    IF sorted = <<>> THEN <<x>>
    ELSE IF Head(sorted)[1] >= x[1]
         THEN <<Head(sorted)>> \o InsertDesc(x, Tail(sorted))
         ELSE <<x>> \o sorted

RECURSIVE SortDescFrom(_, _)
SortDescFrom(todo, sorted) ==
    IF todo = <<>> THEN sorted
    ELSE SortDescFrom(Tail(todo), InsertDesc(Head(todo), sorted))

SortDescByKey(keyed) ==
    LET sorted == SortDescFrom(keyed, <<>>)
    IN  [i \in 1..Len(sorted) |-> sorted[i][2]]

\* unique_results.sort(key=lambda x: self._get_filing_date_for_sorting(x), reverse=True)
EnhancedSort(rs) ==
    SortDescByKey([i \in 1..Len(rs) |-> <<EnhancedGetFilingDateForSorting(rs[i]), rs[i]>>])

\* max_pages=5, the default of search_filings
DefaultMaxPages == 5

\* the search patterns of one call: lobbyist_name, or client_name then registrant_name
EnhancedPatterns(is_person) ==
    IF is_person THEN <<"lobbyist_name">> ELSE <<"client_name", "registrant_name">>

\* pages 2..total_pages fetched after a first page reporting `count`
EnhancedExtraPages(count, page_size, max_pages) ==
    IF count > page_size /\ max_pages > 1
    THEN 2..Min(CeilDiv(count, page_size), max_pages)
    ELSE {}

\* the records one pattern contributes to all_results, given its answers
\* a = [first |-> answer, more |-> [page -> answer]]
EnhancedPatternResults(a, c) ==
    IF a.first.status = 200 /\ a.first.shape = "paged"
    THEN LET pages == EnhancedExtraPages(a.first.count, c.page_size, c.max_pages)
             RECURSIVE More(_)
             More(p) == IF p \notin pages THEN <<>>
                        ELSE (IF a.more[p].status = 200
                              THEN EnhancedAccumulate(a.more[p].results, c.year_from, c.year_to)
                              ELSE <<>>) \o More(p + 1)
         IN  EnhancedAccumulate(a.first.results, c.year_from, c.year_to) \o More(2)
    ELSE <<>>

\* error_message after the loop: set by every failing pattern, never cleared
RECURSIVE EnhancedErrorMessage(_, _)
EnhancedErrorMessage(answers, err) ==
    IF answers = <<>> THEN err
    ELSE LET s == Head(answers).first.status IN
         EnhancedErrorMessage(Tail(answers),
            IF s = 200 THEN err
            ELSE IF s = Exception THEN "Error with pattern"
            ELSE "API request failed for pattern")

Pagination(total_pages, page) ==
    [ total_pages |-> total_pages,
      has_next |-> page < total_pages,
      has_prev |-> page > 1 ]

\* "total_pages = math.ceil(total_results / page_size) if total_results > 0 else 1"
EnhancedTotalPages(total_results, page_size) ==
    IF total_results > 0 THEN CeilDiv(total_results, page_size) ELSE 1

\* enhanced_senate_lda.py search_filings, given the answers to its requests
EnhancedSearchFilings(c, answers) ==
    LET all_results == Concat([i \in 1..Len(answers) |-> EnhancedPatternResults(answers[i], c)])
        unique_results == EnhancedSort(EnhancedDedup(all_results))
        total_results == Len(unique_results)
        total_pages == EnhancedTotalPages(total_results, c.page_size)
        start_idx == (c.page - 1) * c.page_size
        end_idx == Min(start_idx + c.page_size, total_results)
        page_results == IF start_idx < total_results
                        THEN PySlice(unique_results, start_idx, end_idx) ELSE <<>>
    IN  [ results |-> page_results,
          total_count |-> total_results,
          pagination |-> Pagination(total_pages, c.page),
          error |-> EnhancedErrorMessage(answers, Null),
          all_results |-> all_results ]

\* the answers the API can give to one pattern of call c
FirstAnswers(page_size) ==
    {Fail(s) : s \in FailStatuses \cup {Exception}}
    \cup {[status |-> 200, shape |-> "list", count |-> 0, results |-> <<>>]}
    \cup UNION {{Paged(n, rs) : n \in CountsFor(rs, page_size)} : rs \in SeqsUpTo(RawFilings, MaxResp)}

MoreAnswers ==
    {Fail(404)} \cup {Paged(Len(rs), rs) : rs \in SeqsUpTo(RawFilings, 1)}

EnhancedPatternAnswers(c) ==
    UNION {{[first |-> f, more |-> m] :
                m \in [EnhancedExtraPages(f.count, c.page_size, c.max_pages) -> MoreAnswers]} :
           f \in FirstAnswers(c.page_size)}

YearFilters == {0, 2023}

NoCall == [op |-> "none"]
NoRet == [results |-> <<>>, total_count |-> 0, pagination |-> Pagination(0, 1),
          error |-> Null, all_results |-> <<>>]

CallEnhanced ==
    /\ pc = "idle"
    /\ \E is_person \in BOOLEAN, page \in 1..MaxPage, page_size \in 1..MaxPageSize,
          year_from \in YearFilters :
        LET c == [op |-> "enhanced", is_person |-> is_person, page |-> page,
                  page_size |-> page_size, year_from |-> year_from, year_to |-> 0,
                  max_pages |-> DefaultMaxPages]
            n == Len(EnhancedPatterns(is_person))
        IN  \E answers \in [1..n -> EnhancedPatternAnswers(c)] :
                /\ call' = c
                /\ api' = answers
                /\ ret' = EnhancedSearchFilings(c, answers)
    /\ pc' = "returned"
    /\ UNCHANGED <<use_mock_data, rng, flashes, history, threads, cache>>

\* the caller takes the returned tuple; the data source keeps nothing of the call
Return ==
    /\ pc = "returned"
    /\ pc' = "idle"
    /\ call' = NoCall
    /\ api' = <<>>
    /\ ret' = NoRet
    /\ flashes' = {}
    \* history is an observer: it may keep one finished generator call to
    \* compare a later one with; no code reads it
    /\ history' \in IF call.op = "mock"
                    THEN {history, <<[call |-> call, ret |-> ret]>>}
                    ELSE {history}
    /\ UNCHANGED <<use_mock_data, rng, threads, cache>>

InitLive ==
    /\ pc = "idle"
    /\ call = NoCall
    /\ api = <<>>
    /\ ret = NoRet
    /\ use_mock_data = FALSE
    /\ rng = 0
    /\ flashes = {}
    /\ history = <<>>
    /\ threads = NoThreads
    /\ cache = EmptyCache

NextEnhanced == CallEnhanced \/ Return
SpecEnhanced == InitLive /\ [][NextEnhanced]_vars

-----------------------------------------------------------------------------
(* SenateLDADataSource *)

\* senate_lda.py _process_filing: id, the date resolver over the date fields
\* (received_date ... dt_posted), filing_year
SenateProcessFiling(filing) ==
    [ id |-> IF filing.id # NoKey THEN filing.id ELSE "",
      filing_date |-> IF filing.received_date # NoDate
                      THEN Strftime(filing.received_date)
                      ELSE IF filing.dt_posted # NoDate
                      THEN Strftime(filing.dt_posted)
                      ELSE Unknown,
      filing_year |-> filing.filing_year,
      posted_date |-> NoDate,
      is_mock |-> FALSE ]

\* senate_lda.py _should_include_filing (year rules; the calls of this model
\* leave issue_area, agency and amount_min empty)
SenateShouldIncludeFiling(filing, year_from, year_to) ==
    /\ ~(year_from # 0 /\ filing.filing_year # 0 /\ filing.filing_year < year_from)
    /\ ~(year_to # 0 /\ filing.filing_year # 0 /\ filing.filing_year > year_to)

\* "for filing in results_data: ... results.append(filing_data)"
RECURSIVE SenateAccumulate(_, _, _)
SenateAccumulate(rs, year_from, year_to) ==
    IF rs = <<>> THEN <<>>
    ELSE LET fd == SenateProcessFiling(Head(rs))
             rest == SenateAccumulate(Tail(rs), year_from, year_to)
         IN  IF SenateShouldIncludeFiling(fd, year_from, year_to)
             THEN <<fd>> \o rest ELSE rest

\* search_urls, by the endpoint and parameter each one uses
SenateSearchUrls(is_person) ==
    IF is_person
    THEN << [endpoint |-> "filings/", param |-> "search"],
            [endpoint |-> "filings/", param |-> "lobbyist_name"],
            [endpoint |-> "lobbyists/", param |-> "name"] >>
    ELSE << [endpoint |-> "filings/", param |-> "client_name"],
            [endpoint |-> "filings/", param |-> "registrant_name"],
            [endpoint |-> "filings/", param |-> "search"],
            [endpoint |-> "clients/", param |-> "name"],
            [endpoint |-> "registrants/", param |-> "name"],
            [endpoint |-> "registrants/search/", param |-> "name"],
            [endpoint |-> "clients/search/", param |-> "name"] >>

\* any(endpoint in successful_url for endpoint in ["clients/", "registrants/", "lobbyists/"])
SenateIsEntityUrl(url) ==
    url.endpoint \in {"clients/", "registrants/", "lobbyists/",
                      "registrants/search/", "clients/search/"}

\* entity_limit = min(5, len(data))
EntityLimit == 5

\* entity objects an entity endpoint lists: {"id": ..., "name": ...}
Entities == << RawFiling("E1", NoKey, NoDate, NoDate, 0),
               RawFiling("E2", NoKey, NoDate, NoDate, 0),
               RawFiling("E3", NoKey, NoDate, NoDate, 0),
               RawFiling("E4", NoKey, NoDate, NoDate, 0),
               RawFiling("E5", NoKey, NoDate, NoDate, 0),
               RawFiling("E6", NoKey, NoDate, NoDate, 0) >>

\* the filings the second hop collects: one filings/ request per entity
RECURSIVE SenateEntityFilings(_, _, _)
SenateEntityFilings(hops, i, c) ==
    IF i > Len(hops) THEN <<>>
    ELSE (IF hops[i].status = 200 /\ hops[i].shape = "paged"
          THEN SenateAccumulate(hops[i].results, c.year_from, c.year_to)
          ELSE <<>>) \o SenateEntityFilings(hops, i + 1, c)

\* a page count that drops the last, partly filled page
TotalPagesRoundedDown(filtered_count, page_size) ==
    IF filtered_count > 0 THEN filtered_count \div page_size ELSE 1
\* "total_pages = math.ceil(filtered_count / page_size) if filtered_count > 0 else 1"
SenateTotalPages(filtered_count, page_size) ==
    IF filtered_count > 0 THEN CeilDiv(filtered_count, page_size) ELSE 1

SenateErrorReturn(msg) ==
    [ results |-> <<>>, total_count |-> 0, pagination |-> Pagination(0, 1),
      error |-> msg, all_results |-> <<>> ]

\* senate_lda.py search_filings, given the answers to its requests:
\*   a.ok    index in search_urls of the first request answered 200 (0: none)
\*   a.fail  status of the requests that failed before it (or Exception)
\*   a.body  body of the 200 answer
\*   a.hops  answers to the per-entity filings/ requests
SenateSearchFilings(c, a) ==
    IF a.ok = 0
    THEN SenateErrorReturn("Failed to connect to any API endpoints")
    ELSE IF a.body.shape = "badjson"
    THEN SenateErrorReturn("Failed to decode API response")
    ELSE IF a.body.shape = "other"
    THEN SenateErrorReturn("Unknown API response format")
    ELSE
    LET url == SenateSearchUrls(c.is_person)[a.ok]
        direct == SenateAccumulate(a.body.results, c.year_from, c.year_to)
    IN  IF SenateIsEntityUrl(url) /\ a.body.shape = "paged"
        THEN \* data[:entity_limit] on a dict raises; "except Exception" returns
             SenateErrorReturn("Unexpected error")
        ELSE
        LET entity_filings == IF SenateIsEntityUrl(url)
                              THEN SenateEntityFilings(a.hops, 1, c) ELSE <<>>
            results == IF entity_filings # <<>> THEN entity_filings ELSE direct
            filtered_count == Len(results)
            total_pages == SenateTotalPages(filtered_count, c.page_size)
        IN  [ results |-> results,
              total_count |-> filtered_count,
              pagination |-> Pagination(total_pages, c.page),
              error |-> Null,
              all_results |-> results ]

Body(shape, count, results) == [shape |-> shape, count |-> count, results |-> results]

\* bodies a filings/ request can be answered with
FilingBodies(page_size) ==
    {Body("badjson", 0, <<>>), Body("other", 0, <<>>)}
    \cup UNION {{Body("paged", n, rs) : n \in CountsFor(rs, page_size)} \cup {Body("list", Len(rs), rs)} :
                rs \in SeqsUpTo(RawFilings, MaxResp)}

\* bodies an entity endpoint can be answered with
EntityBodies ==
    {Body("badjson", 0, <<>>), Body("other", 0, <<>>)}
    \cup {Body(sh, n, SubSeq(Entities, 1, n)) : sh \in {"list", "paged"}, n \in 0..Len(Entities)}

\* answers to one second-hop request
HopFilings == {r \in RawFilings : r.id = "F1" /\ r.filing_year # 0}

HopAnswers ==
    {Fail(404)} \cup {Paged(Len(rs), rs) : rs \in SeqsUpTo(HopFilings, 1)}

\* the bodies the first request answered 200 (the ok-th of search_urls) can carry
SenateBodies(c, ok) ==
    IF ok = 0 THEN {Body("none", 0, <<>>)}
    ELSE IF SenateIsEntityUrl(SenateSearchUrls(c.is_person)[ok]) THEN EntityBodies
    ELSE FilingBodies(c.page_size)

\* second hops for every listed entity, with no limit
SenateHopsUncapped(c, ok, body) ==
    IF ok # 0 /\ SenateIsEntityUrl(SenateSearchUrls(c.is_person)[ok]) /\ body.shape = "list"
    THEN [1..Len(body.results) -> HopAnswers]
    ELSE {<<>>}
\* the answers to the second-hop requests that follow such a body
SenateHops(c, ok, body) ==
    IF ok # 0 /\ SenateIsEntityUrl(SenateSearchUrls(c.is_person)[ok]) /\ body.shape = "list"
    THEN [1..Min(EntityLimit, Len(body.results)) -> HopAnswers]
    ELSE {<<>>}

CallSenate ==
    /\ pc = "idle"
    /\ \E is_person \in BOOLEAN, page \in 1..MaxPage, page_size \in 1..MaxPageSize,
          year_from \in YearFilters :
        LET c == [op |-> "senate", is_person |-> is_person, page |-> page,
                  page_size |-> page_size, year_from |-> year_from, year_to |-> 0,
                  max_pages |-> 1]
        IN  \E ok \in 0..Len(SenateSearchUrls(is_person)) :
            \E fail \in IF ok = 0 THEN FailStatuses \cup {Exception}
                         ELSE IF ok = 1 THEN {200} ELSE {404} :
            \E body \in SenateBodies(c, ok) :
            \E hops \in SenateHops(c, ok, body) :
                LET a == [ok |-> ok, fail |-> fail, body |-> body, hops |-> hops]
                IN  /\ call' = c
                    /\ api' = a
                    /\ ret' = SenateSearchFilings(c, a)
    /\ pc' = "returned"
    /\ UNCHANGED <<use_mock_data, rng, flashes, history, threads, cache>>

NextSenate == CallSenate \/ Return
SpecSenate == InitLive /\ [][NextSenate]_vars

-----------------------------------------------------------------------------
(* The process-global `random` module.  Its generator is modelled by a      *)
(* small congruential generator: seed() fixes the state from the seed, and  *)
(* every draw advances the state and derives its value from the new state.  *)

RandSeed(seed) == seed % 1009
RandStep(state) == (state * 37 + 11) % 1009
\* random.randint(lo, hi) drawn in state `state` (the state after it is RandStep(state))
RandInt(state, lo, hi) == lo + (RandStep(state) % (hi - lo + 1))
\* random.random() > tenths/10 drawn in state `state`
RandAbove(state, tenths) == (RandStep(state) % 10) >= tenths

-----------------------------------------------------------------------------
(* ImprovedSenateLDADataSource: mock generator *)

Queries == {"acme", "google"}

\* int(hashlib.md5(query.encode()).hexdigest(), 16), kept modulo 10^6
\* (every use of hash_val is a residue modulo a divisor of 10^6, or a seed)
HashVal(query) ==
    CASE query = "acme" -> 696678
      [] query = "google" -> 981562
      [] query = " Acme " -> 885358
      [] OTHER -> 0

\* queries as callers type them: also in another case, with spaces around
TypedQueries == Queries \cup {" Acme "}

MockYears == {2023, 2024}

\* "query = query.lower().strip()"
LowerStrip(query) ==
    CASE query = " Acme " -> "acme"
      [] OTHER -> query

\* query[:4]
Prefix4(query) ==
    CASE query = "google" -> "goog"
      [] OTHER -> query

\* round(x, -3) of an int: to the nearest thousand, ties to the even thousand
RoundThousands(x) ==
    LET k == x \div 1000
        r == x % 1000
    IN  IF r < 500 THEN k * 1000
        ELSE IF r > 500 THEN (k + 1) * 1000
        ELSE IF k % 2 = 0 THEN k * 1000 ELSE (k + 1) * 1000

\* random.seed(hash_val) at the head of _mock_search_results
MockSeedSkipped(state, hash_val) == state
MockSeed(state, hash_val) == RandSeed(hash_val)

\* the keys of the dict literal a generated filing is
MockFilingKeys ==
    { "filing_uuid", "filing_type", "filing_type_display", "filing_year",
      "filing_period", "filing_period_display", "dt_posted", "client", "registrant",
      "income", "expenses", "lobbying_activities", "filing_document_url", "meta" }

\* a "meta" that does not mark the record
MockMetaUnmarked(query) == [is_mock |-> FALSE, original_query |-> query]
\* "meta": {"is_mock": True, "original_query": query}
MockMeta(query) == [is_mock |-> TRUE, original_query |-> query]

\* one iteration of "for i in range(...)": the filing at real_index, generated
\* with the generator in state `state`; yields the filing and the state after
MockFiling(state, query, hash_val, real_index, filing_year) ==
    LET uuid == <<Prefix4(query), hash_val % 10000, real_index, RandInt(state, 1000, 9999)>>
        s0 == RandSeed(hash_val + real_index)
        filing_month == RandInt(s0, 1, 12)
        s1 == RandStep(s0)
        filing_day == RandInt(s1, 1, 28)
        s2 == RandStep(s1)
        base_amount == RandInt(s2, 20, 500) * 1000
        s3 == RandStep(s2)
        rounded_amount == RoundThousands(base_amount + RandInt(s3, -5000, 5000))
        s4 == RandStep(s3)
        use_income == RandAbove(s4, 3)
        s5 == RandStep(s4)
        second_activity == RandAbove(s5, 5)
        s6 == RandStep(s5)
    IN  [ filing |->
            [ id |-> Null,
              filing_uuid |-> uuid,
              filing_date |-> <<"<missing>">>,
              filing_year |-> filing_year,
              posted_date |-> NoDate,
              dt_posted |-> [y |-> filing_year, m |-> filing_month, d |-> filing_day],
              client |-> real_index % 24,
              registrant |-> real_index % 16,
              income |-> IF use_income THEN rounded_amount ELSE 0,
              expenses |-> IF use_income THEN 0 ELSE rounded_amount,
              activities |-> IF second_activity THEN 2 ELSE 1,
              is_mock |-> MockMeta(query).is_mock,
              keys |-> MockFilingKeys ],
          state |-> s6 ]

RECURSIVE MockLoop(_, _, _, _, _, _, _)
MockLoop(state, query, hash_val, start_index, i, n, filing_year) ==
    IF i >= n THEN [results |-> <<>>, state |-> state]
    ELSE LET one == MockFiling(state, query, hash_val, start_index + i, filing_year)
             rest == MockLoop(one.state, query, hash_val, start_index, i + 1, n, filing_year)
         IN  [results |-> <<one.filing>> \o rest.results, state |-> rest.state]

\* a count taken from a wider residue of the hash
MockBaseCountWide(hash_val) == 30 + (hash_val % 1000)
\* "base_count = 30 + (hash_val % 200)"
MockBaseCount(hash_val) == 30 + (hash_val % 200)

\* improved_senate_lda.py _mock_search_results, run with the generator in
\* state `state`: the returned tuple, and the generator's state afterwards
MockSearchResults(state, query, filing_year, page, page_size) ==
    LET q == LowerStrip(query)
        hash_val == HashVal(q)
        base_count == MockBaseCount(hash_val)
        start_index == (page - 1) * page_size
        n == Min(page_size, Max(0, base_count - start_index))
        loop == MockLoop(MockSeed(state, hash_val), q, hash_val, start_index, 0, n, filing_year)
        total_pages == CeilDiv(base_count, page_size)
    IN  [ results |-> loop.results,
          total_count |-> base_count,
          pagination |-> Pagination(total_pages, page),
          error |-> Null,
          all_results |-> loop.results,
          state |-> loop.state ]

-----------------------------------------------------------------------------
(* ImprovedSenateLDADataSource: live search *)

\* the keys of the dict _process_filing_detail builds
ProcessedFilingKeys ==
    { "id", "filing_uuid", "type", "type_display", "year", "period", "period_display",
      "registrant", "client", "activities", "posted_date", "document_url",
      "income", "expenses", "amount", "amount_reported", "lobbying_activities" }

\* improved_senate_lda.py _process_filing_detail
ImprovedProcessFilingDetail(filing) ==
    [ id |-> IF filing.filing_uuid # NoKey THEN filing.filing_uuid ELSE Null,
      filing_date |-> <<"<missing>">>,
      filing_year |-> filing.filing_year,
      posted_date |-> filing.dt_posted,
      is_mock |-> FALSE,       \* the processed dict is built anew, without "meta"
      keys |-> ProcessedFilingKeys ]

\* improved_senate_lda.py _get_filing_date_for_sorting: reads "filing_date"
ImprovedGetFilingDateForSorting(filing) ==
    IF filing.filing_date # <<"<missing>">> /\ filing.filing_date # Unknown
    THEN DateOrd(Strptime(filing.filing_date))
    ELSE DateOrd(SortSentinel)

ImprovedSort(rs) ==
    SortDescByKey([i \in 1..Len(rs) |-> <<ImprovedGetFilingDateForSorting(rs[i]), rs[i]>>])

\* the pagination "{}" of an error return: none of the keys is present
EmptyPagination == [empty |-> TRUE]

\* f"API request failed with status code: {response.status_code}"
StatusCodeMessage(status) ==
    CASE status = 401 -> "API request failed with status code: 401"
      [] status = 404 -> "API request failed with status code: 404"
      [] OTHER -> "API request failed with status code: 500"

ImprovedErrorReturn(msg) ==
    [ results |-> <<>>, total_count |-> 0, pagination |-> EmptyPagination,
      error |-> msg, all_results |-> <<>> ]

\* "if len(results) < 5 and count > page_size and page == 1": a second request
ImprovedWantsSecondPage(first, c) ==
    /\ first.status = 200 /\ first.shape = "paged"
    /\ Len(first.results) < 5 /\ first.count > c.page_size /\ c.page = 1

\* "total_pages = (count + page_size - 1) // page_size"
ImprovedTotalPages(count, page_size) == (count + page_size - 1) \div page_size

\* improved_senate_lda.py search_filings in live mode, given the answers
\* a = [first |-> answer, second |-> answer] to its requests
ImprovedLiveSearch(c, a) ==
    IF a.first.status = Exception THEN ImprovedErrorReturn("Request exception")
    ELSE IF a.first.status # 200
    THEN ImprovedErrorReturn(StatusCodeMessage(a.first.status))
    ELSE IF a.first.shape = "badjson"
    THEN ImprovedErrorReturn("Failed to parse API response")
    ELSE
    LET count == a.first.count
        results == IF ImprovedWantsSecondPage(a.first, c) /\ a.second.status = 200
                   THEN a.first.results \o a.second.results
                   ELSE a.first.results
    IN  IF ImprovedWantsSecondPage(a.first, c) /\ a.second.status = Exception
        THEN ImprovedErrorReturn("Request exception")
        ELSE IF Len(results) > 0
        THEN LET processed == [i \in 1..Len(results) |-> ImprovedProcessFilingDetail(results[i])]
             IN  [ results |-> ImprovedSort(processed),
                   total_count |-> count,
                   pagination |-> Pagination(ImprovedTotalPages(count, c.page_size), c.page),
                   error |-> Null,
                   all_results |-> processed ]
        ELSE [ results |-> <<>>, total_count |-> 0, pagination |-> Pagination(0, c.page),
               error |-> Null, all_results |-> <<>> ]

\* improved_senate_lda.py search_filings: mock mode or live mode; yields the
\* returned tuple and the state of the random generator afterwards
ImprovedSearchFilings(mock, state, c, a) ==
    IF c.query = ""
    THEN [ImprovedErrorReturn("Search query is required") EXCEPT !.pagination = Pagination(0, 1)]
         @@ [state |-> state]
    ELSE IF mock
    THEN MockSearchResults(state, c.query, c.filing_year, c.page, c.page_size)
    ELSE ImprovedLiveSearch(c, a) @@ [state |-> state]

NoAnswer == Fail(0)

\* the answers the API can give to the requests of one live search
ImprovedFirstAnswers(page_size) ==
    {Fail(s) : s \in FailStatuses \cup {Exception}}
    \cup {[status |-> 200, shape |-> "badjson", count |-> 0, results |-> <<>>]}
    \cup UNION {{Paged(n, rs) : n \in CountsFor(rs, page_size)} : rs \in SeqsUpTo(RawFilings, MaxResp)}

ImprovedSecondAnswers(first, c) ==
    IF ImprovedWantsSecondPage(first, c)
    THEN {Fail(404), Fail(Exception)} \cup {Paged(Len(rs), rs) : rs \in SeqsUpTo(RawFilings, 1)}
    ELSE {NoAnswer}

SearchTypes == {"registrant", "client", "lobbyist"}

ImprovedCall(op, query, search_type, page, page_size) ==
    [op |-> op, query |-> query, search_type |-> search_type, filing_year |-> 2024,
     page |-> page, page_size |-> page_size]

\* a direct search_filings call on the data source app.senate_lda
CallImproved ==
    /\ pc = "idle"
    /\ \E query \in Queries \cup {""}, search_type \in SearchTypes,
          page \in 1..MaxPage, page_size \in 1..MaxPageSize :
        LET c == ImprovedCall("improved", query, search_type, page, page_size)
        IN  \E first \in IF use_mock_data \/ query = "" THEN {NoAnswer}
                         ELSE ImprovedFirstAnswers(page_size) :
            \E second \in ImprovedSecondAnswers(first, c) :
                LET a == [first |-> first, second |-> second]
                    r == ImprovedSearchFilings(use_mock_data, rng, c, a)
                IN  /\ call' = c
                    /\ api' = <<a>>
                    /\ ret' = [x \in DOMAIN r \ {"state"} |-> r[x]]
                    /\ rng' = r.state
    /\ pc' = "returned"
    /\ UNCHANGED <<use_mock_data, flashes, history, threads, cache>>

InitApp ==
    /\ pc = "idle"
    /\ call = NoCall
    /\ api = <<>>
    /\ ret = NoRet
    /\ use_mock_data \in BOOLEAN    \* app.py: decided by the start-up test request
    /\ rng = 0
    /\ flashes = {}
    /\ history = <<>>
    /\ threads = NoThreads
    /\ cache = EmptyCache

NextImproved == CallImproved \/ Return
SpecImproved == InitApp /\ [][NextImproved]_vars

\* a direct call of the generator, _mock_search_results (as on app.py's mock_client)
CallMock ==
    /\ pc = "idle"
    /\ \E query \in TypedQueries, filing_year \in MockYears,
          page \in 1..MaxPage, page_size \in 1..MaxPageSize :
        LET c == [ImprovedCall("mock", query, "registrant", page, page_size)
                     EXCEPT !.filing_year = filing_year]
        IN  \E r \in {MockSearchResults(rng, c.query, c.filing_year, c.page, c.page_size)} :
            /\ call' = [args |-> c, op |-> c.op, entry_state |-> rng]
            /\ ret' = [x \in DOMAIN r \ {"state"} |-> r[x]]
            /\ rng' = r.state
    /\ api' = <<>>
    /\ pc' = "returned"
    /\ UNCHANGED <<use_mock_data, flashes, history, threads, cache>>

NextMock == CallMock \/ Return
SpecMock == InitApp /\ [][NextMock]_vars

-----------------------------------------------------------------------------
(* app.py: the /results route *)

FlashAlternate == "No results found as search_type. Showing results as alt_search_type instead."
FlashApiIssues == "The Senate LDA API is currently experiencing issues. Showing generated demo data instead."
FlashDemonstration == "Showing demonstration data because the Senate LDA API did not return results for your search."

\* app.py show_results: alt_search_type
AltSearchType(search_type) ==
    CASE search_type = "registrant" -> "client"
      [] search_type = "client" -> "registrant"
      [] OTHER -> Null

\* "if (error or not results)"
ErrorOrNoResults(r) == r.error # Null \/ r.results = <<>>

\* "all(filing.get('meta', {}).get('is_mock', False) for filing in results) if results else False"
AllMock(results) ==
    /\ results # <<>>
    /\ \A i \in 1..Len(results) : results[i].is_mock

\* a fallback that is also taken when a search found nothing and had no error
FallsBackWithoutError(mock, r) == ErrorOrNoResults(r) /\ ~mock
\* whether the mock-data branch "if error and not senate_lda.use_mock_data" is taken
ShowResultsFallsBack(mock, r) == ErrorOrNoResults(r) /\ r.error # Null /\ ~mock

\* whether show_results makes the alternate search after the primary one
\* returned the tuple r
TriesAlternate(mock, search_type, r) ==
    ErrorOrNoResults(r) /\ ~mock /\ AltSearchType(search_type) # Null

\* "if not alt_error and alt_results"
AlternateWorked(alt) == alt.error = Null /\ alt.results # <<>>

NoSearch == [first |-> NoAnswer, second |-> NoAnswer]

\* the answers the API can give to one live search of call c
ImprovedSearchAnswers(c) ==
    UNION { {[first |-> first, second |-> second] : second \in ImprovedSecondAnswers(first, c)}
            : first \in ImprovedFirstAnswers(c.page_size) }

\* the template rendered when nothing was found and no error is pending
NoResultsView(found) ==
    [ view |-> "no_results", results |-> <<>>, total_count |-> 0, pagination |-> Null,
      error |-> found.error, all_results |-> <<>>, alt_terms |-> TRUE ]

\* the template rendered with the records to show
ResultsView(found, shown) ==
    [ view |-> "results", results |-> shown.results, total_count |-> shown.total_count,
      pagination |-> shown.pagination, error |-> found.error,
      all_results |-> shown.all_results, alt_terms |-> FALSE ]

\* GET /results/<page>: app.py show_results, from the primary search to the
\* rendering; every \E over a one-element set names a local of the handler
CallShowResults ==
    /\ pc = "idle"
    /\ \E query \in Queries, search_type \in SearchTypes,
          page \in 1..MaxPage, page_size \in 1..MaxPageSize :
        LET c == ImprovedCall("show_results", query, search_type, page, page_size)
            alt_c == [c EXCEPT !.search_type = AltSearchType(search_type)]
        IN
        \E a1 \in IF use_mock_data THEN {NoSearch} ELSE ImprovedSearchAnswers(c) :
        \E primary \in {ImprovedSearchFilings(use_mock_data, rng, c, a1)} :
        \E a2 \in IF TriesAlternate(use_mock_data, search_type, primary)
                  THEN ImprovedSearchAnswers(alt_c) ELSE {NoSearch} :
        \E alt \in IF a2 = NoSearch THEN {primary}
                   ELSE {ImprovedSearchFilings(use_mock_data, primary.state, alt_c, a2)} :
        \E alt_worked \in {a2 # NoSearch /\ AlternateWorked(alt)} :
        \E found \in {IF alt_worked THEN alt ELSE primary} :
        \E falls_back \in {ShowResultsFallsBack(use_mock_data, found)} :
        \E shown \in IF falls_back
                     THEN {MockSearchResults(found.state, query, c.filing_year, page, page_size)}
                     ELSE {found} :
            /\ call' = c
            /\ api' = <<a1, a2>>
            /\ ret' = IF ErrorOrNoResults(found) /\ ~falls_back /\ found.results = <<>>
                      THEN NoResultsView(found)
                      ELSE ResultsView(found, shown)
            /\ flashes' = (IF alt_worked THEN {FlashAlternate} ELSE {})
                           \cup (IF falls_back THEN {FlashApiIssues} ELSE {})
                           \cup (IF AllMock(shown.results) THEN {FlashDemonstration} ELSE {})
            /\ rng' = shown.state
    /\ pc' = "returned"
    /\ UNCHANGED <<use_mock_data, history, threads, cache>>

NextWeb == CallShowResults \/ Return
SpecWeb == InitApp /\ [][NextWeb]_vars

-----------------------------------------------------------------------------
(* the three Senate data sources side by side, each searching the live API *)

NextSources ==
    \/ CallEnhanced
    \/ CallSenate
    \/ CallImproved
    \/ Return

SpecSources == InitLive /\ [][NextSources]_vars

-----------------------------------------------------------------------------
(* Properties of the returned tuples *)

Returned(ops) == pc = "returned" /\ call.op \in ops

SenateSources == {"enhanced", "senate", "improved"}

\* an id that is present and not the empty string
NonEmptyId(id) == id # "" /\ id # Null

NoSharedId(rs) ==
    \A i, j \in 1..Len(rs) :
        (i < j /\ NonEmptyId(rs[i].id)) => rs[i].id # rs[j].id

\* C1: in every result set returned by the search_filings of any of the three
\* Senate data sources, no two records share the same non-empty id.
C1_NoDuplicateIds ==
    Returned(SenateSources) => NoSharedId(ret.results)

\* the positions of all in which an id occurs for the first time
FirstOccurrences(all) ==
    {i \in 1..Len(all) : NonEmptyId(all[i].id) /\ \A j \in 1..(i - 1) : all[j].id # all[i].id}

\* C2: deduplication keeps, for each non-empty id, the first accumulated record
\* with that id, and keeps every accumulated record whose id is empty.
C2_DedupKeepsFirstAndEmptyIds ==
    Returned({"enhanced"}) =>
        LET all == ret.all_results
            unique == EnhancedDedup(all)
        IN  /\ \A i \in FirstOccurrences(all) : \E k \in 1..Len(unique) : unique[k] = all[i]
            /\ Len(SelectSeq(all, LAMBDA f : ~NonEmptyId(f.id)))
                 = Len(SelectSeq(unique, LAMBDA f : ~NonEmptyId(f.id)))

\* the first day of the calendar, datetime.min
EarliestPossibleDate == [y |-> 1, m |-> 1, d |-> 1]

\* the date a record resolves to, "Unknown" counting as the earliest possible date
ResolvedDate(filing) ==
    IF filing.filing_date = Unknown THEN DateOrd(EarliestPossibleDate)
    ELSE DateOrd(Strptime(filing.filing_date))

\* C3: every adjacent pair (a, b) of a page returned by the Enhanced search has
\* resolved date of a >= resolved date of b, "Unknown" being the earliest
\* possible date, so that records without a date come last.
C3_SortedUnknownLast ==
    Returned({"enhanced"}) =>
        \A i \in 1..(Len(ret.results) - 1) :
            ResolvedDate(ret.results[i]) >= ResolvedDate(ret.results[i + 1])

Successful == ret.error = Null

\* C4 as stated: for every successful result, total_pages = ceil(total_count /
\* page_size), also when total_count = 0.
C4_TotalPagesIsCeilEverywhere ==
    (Returned(SenateSources) /\ Successful) =>
        ret.pagination.total_pages = CeilDiv(ret.total_count, call.page_size)

\* C4: for every successful result, total_pages = ceil(total_count / page_size)
\* when total_count > 0; when total_count = 0, total_pages is 1 from the Senate
\* and Enhanced data sources and 0 from the Improved one.
C4_TotalPages ==
    (Returned(SenateSources) /\ Successful) =>
        IF ret.total_count > 0
        THEN ret.pagination.total_pages = CeilDiv(ret.total_count, call.page_size)
        ELSE ret.pagination.total_pages = (IF call.op = "improved" THEN 0 ELSE 1)

\* a successful Senate search of more records than a page, the last page partly filled
C4_Witness ==
    /\ Returned({"senate"}) /\ Successful
    /\ ret.total_count > call.page_size
    /\ ret.total_count % call.page_size # 0
    /\ ret.pagination.total_pages = 2

\* C5: every search_filings call of the three data sources, for a page within
\* [1, total_pages], returns at most page_size records, also after an entity
\* second hop or a continuation-page request.
C5_AtMostPageSize ==
    (Returned(SenateSources) /\ Successful /\ call.page <= ret.pagination.total_pages) =>
        Len(ret.results) <= call.page_size

\* the number of records the search holds locally when it computes its counts
LocalCount ==
    IF call.op = "enhanced" THEN Len(EnhancedDedup(ret.all_results))
    ELSE Len(ret.all_results)

\* C6: total_count and total_pages are computed from the number of locally
\* accumulated records only, never from the count field of the response.
C6_CountIsLocal ==
    (Returned({"improved", "enhanced"}) /\ Successful) =>
        /\ ret.total_count = LocalCount
        /\ LocalCount > 0 => ret.pagination.total_pages = CeilDiv(LocalCount, call.page_size)

\* the records of a response all carry an id, and no two the same one
DistinctIds(rs) ==
    /\ \A i \in 1..Len(rs) : rs[i].id # NoKey
    /\ \A i, j \in 1..Len(rs) : i < j => rs[i].id # rs[j].id

\* an organization search: client_name answers one page of N records, which all
\* pass the filters, and registrant_name answers 404
ClientAnswersRegistrant404 ==
    /\ Returned({"enhanced"}) /\ ~call.is_person /\ call.page = 1
    /\ api[1].first.status = 200 /\ api[1].first.shape = "paged"
    /\ api[1].first.count = Len(api[1].first.results)
    /\ Len(api[1].first.results) <= call.page_size
    /\ DistinctIds(api[1].first.results)
    /\ Len(EnhancedPatternResults(api[1], call)) = Len(api[1].first.results)
    /\ api[2].first.status = 404

\* C7: when client_name answers N records and registrant_name answers 404, the
\* search returns exactly those N records, total_count = N and no error.
C7_PartialFailureNoError ==
    ClientAnswersRegistrant404 =>
        /\ Len(ret.results) = Len(api[1].first.results)
        /\ \A i \in 1..Len(ret.results) :
             \E k \in 1..Len(api[1].first.results) :
                ret.results[i] = EnhancedProcessFiling(api[1].first.results[k])
        /\ ret.total_count = Len(api[1].first.results)
        /\ ret.error = Null

\* the live searches show_results made, recomputed from the answers they got
PrimarySearch == ImprovedLiveSearch(call, api[1])
AlternateTried == api[2] # NoSearch
AlternateSearch ==
    ImprovedLiveSearch([call EXCEPT !.search_type = AltSearchType(call.search_type)], api[2])

LiveShowResults == Returned({"show_results"}) /\ ~use_mock_data

\* every request of the search was answered 401
Every401 ==
    /\ LiveShowResults
    /\ api[1].first.status = 401
    /\ AlternateTried => api[2].first.status = 401

\* the page shows generated records, or announces them
MockDataShown ==
    \/ \E i \in 1..Len(ret.results) : ret.results[i].is_mock
    \/ FlashApiIssues \in flashes
    \/ FlashDemonstration \in flashes

\* C8: when every request of a search is answered 401, the search ends with
\* empty results, total_count 0 and a non-null error, and no mock data is
\* generated for it.
C8_AuthFailureIsFatal ==
    Every401 =>
        /\ ret.results = <<>>
        /\ ret.total_count = 0
        /\ ret.error # Null
        /\ ~MockDataShown

\* every live attempt of the search returned an empty result list
EveryAttemptEmpty ==
    /\ LiveShowResults
    /\ PrimarySearch.results = <<>>
    /\ AlternateTried => AlternateSearch.results = <<>>

ShowsMockRecords ==
    /\ ret.view = "results"
    /\ ret.results # <<>>
    /\ \A i \in 1..Len(ret.results) : ret.results[i].is_mock
    /\ FlashApiIssues \in flashes
    /\ FlashDemonstration \in flashes

ShowsNoResults ==
    /\ ret.view = "no_results"
    /\ ret.results = <<>>
    /\ ret.total_count = 0
    /\ ret.alt_terms
    /\ flashes = {}

C10_MockDeterministic ==
    (Returned({"mock"}) /\ history # <<>> /\ history[1].call.args = call.args) =>
        history[1].ret = ret

\* the same arguments a second time, the generator entered in another state
C10_Witness ==
    /\ Returned({"mock"})
    /\ history # <<>>
    /\ history[1].call.args = call.args
    /\ history[1].call.entry_state # call.entry_state
    /\ Len(ret.results) = MaxPageSize

\* the records shown by this call come from the mock generator
FromMockGenerator ==
    \/ call.op = "mock"
    \/ use_mock_data
    \/ FlashApiIssues \in flashes

\* C11: every record that reaches the caller from the mock generator, in mock
\* mode or after the web layer's fallback, is marked is_mock; no record from
\* the live API is.
C11_MockMarker ==
    Returned({"show_results"}) =>
        \A i \in 1..Len(ret.results) : ret.results[i].is_mock <=> FromMockGenerator

\* a live search that failed, after which the page shows generated records
C11_Witness ==
    /\ Returned({"show_results"}) /\ ~use_mock_data
    /\ FlashApiIssues \in flashes
    /\ Len(ret.results) = call.page_size
    /\ \A i \in 1..Len(ret.results) : ret.results[i].is_mock

\* C12: the total_count of the mock generator depends on the lowercased,
\* trimmed query only (not on page, page_size or filters, nor on the case of
\* the query or the spaces around it) and lies between 30 and 230.
C12_MockTotalCount ==
    Returned({"mock"}) =>
        /\ ret.total_count \in 30..230
        /\ (history # <<>>
            /\ LowerStrip(history[1].call.args.query) = LowerStrip(call.args.query))
           => history[1].ret.total_count = ret.total_count

\* the same query typed differently, another page, page size and year
C12_Witness ==
    /\ Returned({"mock"})
    /\ history # <<>>
    /\ history[1].call.args.query = "acme" /\ call.args.query = " Acme "
    /\ history[1].call.args.page # call.args.page
    /\ history[1].call.args.page_size # call.args.page_size
    /\ history[1].call.args.filing_year # call.args.filing_year
    /\ ret.total_count = history[1].ret.total_count

\* C13: a record of the mock generator has the field names of a record of the
\* live search path, so that a consumer reading a field of a live record finds
\* that field in a mock record.
C13_MockHasLiveShape ==
    Returned({"show_results"}) =>
        \A i \in 1..Len(ret.results) :
            ret.results[i].is_mock => ProcessedFilingKeys \subseteq ret.results[i].keys

(***************************************************************************)
(* The inclusion filter as a pure function.                                *)
(* senate_lda.py _should_include_filing (420-469) and the Enhanced copy    *)
(* (205-252) are the same code.  Python values are records that carry the  *)
(* kind of the value; strings that are searched are sequences of           *)
(* one-character strings.                                                  *)
(***************************************************************************)
PyNone == [kind |-> "none", val |-> 0]

PyEmptyStr == [kind |-> "emptystr", val |-> 0]

PyNum(n) == [kind |-> "num", val |-> n]

PyNumStr(n) == [kind |-> "numstr", val |-> n]

PyText == [kind |-> "text", val |-> 0]

PyObject == [kind |-> "object", val |-> 0]

\* bool(v): None, "" and 0 are falsy; a non-empty string or list is truthy.
Truthy(v) ==
    CASE v.kind = "none" -> FALSE
      [] v.kind = "emptystr" -> FALSE
      [] v.kind = "num" -> v.val # 0
      [] OTHER -> TRUE

\* float(v) / int(v): the value, or the exception the conversion raises.
FloatOf(v) ==
    CASE v.kind \in {"num", "numstr"} -> [ok |-> TRUE, val |-> v.val, err |-> Null]
      [] v.kind \in {"text", "emptystr", "moneystr", "blank"} ->
             [ok |-> FALSE, val |-> 0, err |-> "ValueError"]
      [] OTHER -> [ok |-> FALSE, val |-> 0, err |-> "TypeError"]

\* str(v).strip().isdigit()
IsDigitStr(v) == v.kind \in {"num", "numstr"} /\ v.val >= 0

LowerChar(ch) ==
    CASE ch = "T" -> "t" [] ch = "A" -> "a" [] ch = "X" -> "x"
      [] ch = "E" -> "e" [] ch = "P" -> "p" [] ch = "O" -> "o"
      [] OTHER -> ch

StrLower(s) == [i \in 1..Len(s) |-> LowerChar(s[i])]

\* needle in hay
Contains(needle, hay) ==
    \E i \in 1..(Len(hay) - Len(needle) + 1) :
        SubSeq(hay, i, i + Len(needle) - 1) = needle

\* The exceptions the year and amount rules catch and pass over.
CaughtValueErrorOnly == {"ValueError"}

FilterCaught == {"ValueError", "TypeError"}

\* One guarded comparison: "exclude", "pass" or "raise".
GuardedCompare(left, right, excludes) ==
    IF ~left.ok THEN (IF left.err \in FilterCaught THEN "pass" ELSE "raise")
    ELSE IF ~right.ok THEN (IF right.err \in FilterCaught THEN "pass" ELSE "raise")
    ELSE IF excludes THEN "exclude" ELSE "pass"

YearFromRule(filing, year_from) ==
    IF Truthy(year_from) /\ Truthy(filing.filing_year) /\ IsDigitStr(filing.filing_year)
    THEN GuardedCompare(FloatOf(filing.filing_year), FloatOf(year_from),
                        filing.filing_year.val < year_from.val)
    ELSE "pass"

YearToRule(filing, year_to) ==
    IF Truthy(year_to) /\ Truthy(filing.filing_year) /\ IsDigitStr(filing.filing_year)
    THEN GuardedCompare(FloatOf(filing.filing_year), FloatOf(year_to),
                        filing.filing_year.val > year_to.val)
    ELSE "pass"

IssueRule(filing, issue_area) ==
    IF issue_area # <<>> /\ filing.issues # <<>>
          /\ ~Contains(StrLower(issue_area), StrLower(filing.issues))
    THEN "exclude" ELSE "pass"

AgencyRule(filing, agency) ==
    IF agency # <<>> /\ filing.agencies # <<>>
          /\ \A i \in 1..Len(filing.agencies) :
                 ~Contains(StrLower(agency), StrLower(filing.agencies[i]))
    THEN "exclude" ELSE "pass"

AmountRule(filing, amount_min) ==
    IF Truthy(amount_min) /\ Truthy(filing.amount)
    THEN GuardedCompare(FloatOf(amount_min), FloatOf(filing.amount),
                        filing.amount.val < amount_min.val)
    ELSE "pass"

\* The rules in the order of the code; the first one that does not pass decides.
FirstDecided(outcomes) ==
    IF \A i \in 1..Len(outcomes) : outcomes[i] = "pass" THEN "pass"
    ELSE outcomes[CHOOSE i \in 1..Len(outcomes) :
                      outcomes[i] # "pass" /\ \A j \in 1..(i-1) : outcomes[j] = "pass"]

ShouldIncludeFiling(filing, f) ==
    LET decided == FirstDecided(<<YearFromRule(filing, f.year_from),
                                  YearToRule(filing, f.year_to),
                                  IssueRule(filing, f.issue_area),
                                  AgencyRule(filing, f.agency),
                                  AmountRule(filing, f.amount_min)>>)
    IN  [included |-> decided = "pass", raised |-> decided = "raise"]

FilterYears == {PyEmptyStr, PyNum(2022), PyNumStr(2023), PyText}

FilterIssues == {<<"T", "a", "x">>, <<"O", "i", "l">>}

FilterAgencies == {<<>>, <<<<"E", "P", "A">>>>, <<<<"F", "c", "c">>, <<"E", "P", "A">>>>}

FilterAmounts == {PyNone, PyNum(0), PyNum(500), PyNum(1000)}

\* The records _process_filing can hand to the filter.
FilterFilings ==
    [filing_year : FilterYears, issues : FilterIssues,
     agencies : FilterAgencies, amount : FilterAmounts]

FilterArgs ==
    [year_from : {PyNone, PyNum(2023), PyText},
     year_to : {PyNone, PyNum(2022)},
     issue_area : {<<>>, <<"T", "A">>},
     agency : {<<>>, <<"e", "p">>},
     amount_min : {PyNone, PyNum(1000), PyNumStr(1000), PyText, PyObject}]

CallShouldInclude ==
    /\ pc = "idle"
    /\ \E filing \in FilterFilings, f \in FilterArgs :
           /\ call' = [op |-> "should_include", filing |-> filing, filters |-> f]
           /\ ret' = ShouldIncludeFiling(filing, f)
    /\ pc' = "returned"
    /\ UNCHANGED <<api, use_mock_data, rng, flashes, history, threads, cache>>

NextFilter == CallShouldInclude \/ Return

SpecFilter == InitLive /\ [][NextFilter]_vars

\* The filter arguments of the call with amount_min left out.
WithoutAmountMin(f) == [f EXCEPT !.amount_min = PyNone]

NonNumeric(v) == Truthy(v) /\ ~FloatOf(v).ok

\* C14: with an amount_min that is not a number (a string float() rejects,
\* or an object of another type) the filter returns what it returns for the
\* same filing and the same other arguments with no amount_min, and it does
\* not raise.
C14_AmountMinFailsOpen ==
    (Returned({"should_include"}) /\ NonNumeric(call.filters.amount_min)) =>
        /\ ~ret.raised
        /\ ret.included =
               ShouldIncludeFiling(call.filing, WithoutAmountMin(call.filters)).included

\* A filing with an amount of 500 is kept under an amount_min that is a list.
C14_Witness ==
    /\ Returned({"should_include"})
    /\ call.filters.amount_min = PyObject
    /\ call.filing.amount = PyNum(500)
    /\ ret.included /\ ~ret.raised

Given(v) == Truthy(v) /\ FloatOf(v).ok

\* The four rules as stated: the year below year_from or above year_to, the
\* issue area in no part of issues, the agency in no entry of agencies, the
\* amount below amount_min.
YearViolated(filing, f) ==
    /\ IsDigitStr(filing.filing_year)
    /\ \/ Given(f.year_from) /\ filing.filing_year.val < f.year_from.val
       \/ Given(f.year_to) /\ filing.filing_year.val > f.year_to.val

IssueViolated(filing, f) ==
    f.issue_area # <<>> /\ ~Contains(StrLower(f.issue_area), StrLower(filing.issues))

AgencyViolated(filing, f) ==
    /\ f.agency # <<>>
    /\ \A i \in 1..Len(filing.agencies) :
           ~Contains(StrLower(f.agency), StrLower(filing.agencies[i]))

AmountViolated(filing, f) ==
    /\ filing.amount.kind = "num"
    /\ Given(f.amount_min)
    /\ filing.amount.val < f.amount_min.val

\* C19: the filter returns false exactly when the year, issue, agency or
\* amount rule is violated, and true otherwise.
C19_ExcludedExactlyWhenViolated ==
    Returned({"should_include"}) =>
        (ret.included <=>
            ~(\/ YearViolated(call.filing, call.filters)
              \/ IssueViolated(call.filing, call.filters)
              \/ AgencyViolated(call.filing, call.filters)
              \/ AmountViolated(call.filing, call.filters)))

(***************************************************************************)
(* Normalization of one raw filing as a pure function:                     *)
(* senate_lda.py _process_filing (471-701) on the fields the defaults and  *)
(* the amount depend on, and improved_senate_lda.py _process_filing_detail *)
(* (725-758).                                                              *)
(***************************************************************************)
PyAbsent == [kind |-> "absent", val |-> 0]

\* a string such as "$1,000": float() rejects it until '$' and ',' are removed
PyMoneyStr(n) == [kind |-> "moneystr", val |-> n]

\* a string of white space only
PyBlank == [kind |-> "blank", val |-> 0]

\* str(v).replace('$', '').replace(',', '')
CleanAmount(v) ==
    CASE v.kind = "moneystr" -> PyNumStr(v.val)
      [] v.kind = "object" -> PyText
      [] OTHER -> v

AmountFields == <<"income_amount", "expense_amount", "amount", "lobbying_expenses">>

AmountCaught == {"ValueError", "AttributeError"}

\* The loop over the amount fields from field i on: the amount, or the
\* exception that leaves the loop.
RECURSIVE AmountFrom(_, _)
AmountFrom(filing, i) ==
    IF i > Len(AmountFields) THEN [raised |-> Null, amount |-> PyNone]
    ELSE LET v == filing[AmountFields[i]]
             clean == CleanAmount(v)
         IN  IF v.kind = "absent" \/ ~Truthy(v) THEN AmountFrom(filing, i + 1)
             ELSE IF v.kind = "num" THEN [raised |-> Null, amount |-> v]
             ELSE IF clean.kind = "blank" THEN AmountFrom(filing, i + 1)
             ELSE IF FloatOf(clean).ok
                  THEN [raised |-> Null, amount |-> PyNum(FloatOf(clean).val)]
             ELSE IF FloatOf(clean).err \in AmountCaught THEN AmountFrom(filing, i + 1)
             ELSE [raised |-> FloatOf(clean).err, amount |-> PyNone]

Normalized(id, issues, amount) ==
    [raised |-> Null, id |-> id, filing_date |-> Unknown, client |-> Unknown,
     registrant |-> Unknown, lobbyists |-> <<>>, issues |-> issues,
     agencies |-> <<>>, amount |-> amount]

\* What the caller sees when _process_filing raises.
Raises(exception) ==
    [Normalized(Null, Null, PyNone) EXCEPT !.raised = exception,
        !.filing_date = Null, !.client = Null, !.registrant = Null]

NoInformation == "No information available"

NoSpecificIssues == "No specific issues provided"

\* _process_filing on null, on {} and on an object that has amount fields
\* only.  filing.get is called before the emptiness test.
ProcessFilingRaw(raw) ==
    IF raw.shape = "null" THEN Raises("AttributeError")
    ELSE IF raw.shape = "empty" THEN Normalized("", NoInformation, PyNone)
    ELSE LET a == AmountFrom(raw, 1)
         IN  IF a.raised # Null THEN Raises(a.raised)
             ELSE Normalized("", NoSpecificIssues, a.amount)

\* filing.get(key, default): the default only when the key is absent
DictGet(v, default) == IF v.kind = "absent" THEN default ELSE v

\* _process_filing_detail: None for an empty filing, else the amount is
\* filing.get('income', filing.get('expenses')), unparsed.
ProcessFilingDetailAmount(raw) ==
    IF raw.shape \in {"null", "empty"} THEN [returned_none |-> TRUE, amount |-> PyNone]
    ELSE [returned_none |-> FALSE,
          amount |-> DictGet(raw.income, DictGet(raw.expenses, PyNone))]

AmountValues ==
    {PyAbsent, PyNone, PyNum(0), PyNum(500), PyMoneyStr(1000), PyText, PyBlank}

RawObjects ==
    {[shape |-> s, income_amount |-> PyAbsent, expense_amount |-> PyAbsent,
      amount |-> PyAbsent, lobbying_expenses |-> PyAbsent] : s \in {"null", "empty"}}
    \cup [shape : {"dict"}, income_amount : AmountValues, expense_amount : AmountValues,
          amount : AmountValues, lobbying_expenses : AmountValues]

DetailValues == {PyAbsent, PyNone, PyNum(500), PyNum(1000)}

RawDetails ==
    {[shape |-> s, income |-> PyAbsent, expenses |-> PyAbsent] : s \in {"null", "empty"}}
    \cup ([shape : {"dict"}, income : DetailValues, expenses : DetailValues]
          \ {[shape |-> "dict", income |-> PyAbsent, expenses |-> PyAbsent]})

CallProcessFiling ==
    /\ pc = "idle"
    /\ \E raw \in RawObjects :
           /\ call' = [op |-> "process_filing", raw |-> raw]
           /\ ret' = ProcessFilingRaw(raw)
    /\ pc' = "returned"
    /\ UNCHANGED <<api, use_mock_data, rng, flashes, history, threads, cache>>

CallProcessFilingDetail ==
    /\ pc = "idle"
    /\ \E raw \in RawDetails :
           /\ call' = [op |-> "process_filing_detail", raw |-> raw]
           /\ ret' = ProcessFilingDetailAmount(raw)
    /\ pc' = "returned"
    /\ UNCHANGED <<api, use_mock_data, rng, flashes, history, threads, cache>>

NextNormalize == CallProcessFiling \/ CallProcessFilingDetail \/ Return

SpecNormalize == InitLive /\ [][NextNormalize]_vars

\* C15: _process_filing raises on no input, and on an empty or null input it
\* returns the defaulted filing: id "", filing_date, client and registrant
\* "Unknown", no lobbyists, no agencies, issues "No specific issues
\* provided", amount null.
C15_NormalizeTotalWithDefaults ==
    Returned({"process_filing"}) =>
        /\ ret.raised = Null
        /\ call.raw.shape \in {"null", "empty"} =>
               ret = Normalized("", NoSpecificIssues, PyNone)

\* A field value that holds a number: a number, or a string that is a number
\* once '$' and ',' are removed.
Resolvable(v) == v.kind \in {"num", "numstr", "moneystr"}

\* The number of the first field, in the given order, that holds one.
RECURSIVE FirstResolvable(_, _, _)
FirstResolvable(raw, fields, i) ==
    IF i > Len(fields) THEN PyNone
    ELSE IF Resolvable(raw[fields[i]]) THEN PyNum(raw[fields[i]].val)
    ELSE FirstResolvable(raw, fields, i + 1)

DetailAmountFields == <<"income", "expenses">>

\* C20: the normalized amount is the number of the first amount field, in the
\* order income, expense, generic amount, that holds a resolvable number, and
\* it is null only when no field holds one.
C20_AmountIsFirstResolvable ==
    /\ (Returned({"process_filing"}) /\ call.raw.shape = "dict" /\ ret.raised = Null) =>
           ret.amount = FirstResolvable(call.raw, AmountFields, 1)
    /\ (Returned({"process_filing_detail"}) /\ call.raw.shape = "dict") =>
           ret.amount = FirstResolvable(call.raw, DetailAmountFields, 1)

(***************************************************************************)
(* get_filing_detail: improved_senate_lda.py 490-541 (the source the web   *)
(* application uses) and senate_lda.py 269-356.  api records the requests  *)
(* the call made, in order, each with the answer it got.                   *)
(***************************************************************************)
Request(kind, status) == [kind |-> kind, status |-> status]

\* "acme-2024-Q1-1234" has the format of a generated id: a '-' and a first
\* part of at most four characters.  A filing_uuid has a first part of eight.
FilingIds == {"acme-2024-Q1-1234", "1a2b3c4d-0000-0000-0000-000000000000"}

LooksLikeMockId(filing_id) == filing_id = "acme-2024-Q1-1234"

DetailStatuses == {200, 400, 404, 500, Exception}

Detail(source, error) == [source |-> source, error |-> error]

DetailUnavailable == "Could not retrieve filing details. Please try again later."

\* Improved: mock detail for mock mode or a mock id; else one direct request,
\* whose failure of any kind is answered with the mock detail.
\* A 200 answer is parsed and handed to _process_filing_detail, which gives
\* None for a falsy body; a body that does not parse, or one that is no
\* dict, raises and is answered with the mock detail as well.
\*   source "live": the processed filing, "mock": the mock detail,
\*   "none": None in place of a filing
ImprovedGetFilingDetail(mock, filing_id, status, body) ==
    IF mock \/ LooksLikeMockId(filing_id)
    THEN [requests |-> <<>>, detail |-> Detail("mock", Null)]
    ELSE [requests |-> <<Request("direct", status) @@ [body |-> body]>>,
          detail |-> IF status # 200 THEN Detail("mock", Null)
                     ELSE IF body = "object" THEN Detail("live", Null)
                     ELSE IF body = "empty" THEN Detail("none", Null)
                     ELSE Detail("mock", Null)]

\* what a 200 answer can carry: a filing object; {}, null or []; text that
\* is no JSON; JSON that is no dict
DetailBodies == {"object", "empty", "badjson", "nondict"}

\* Senate: two direct urls, then two search-by-id urls, up to the first 200.
SenateDetailUrls == <<"direct", "direct", "search", "search">>

RECURSIVE SenateDetailRequests(_, _)
SenateDetailRequests(statuses, i) ==
    IF i > Len(SenateDetailUrls) THEN <<>>
    ELSE IF statuses[i] = 200 THEN <<Request(SenateDetailUrls[i], 200)>>
    ELSE <<Request(SenateDetailUrls[i], statuses[i])>> \o SenateDetailRequests(statuses, i + 1)

\* After a 200 the filing is processed; when it lacks lobbyists or
\* activities one more direct request is made, whose failure is ignored.
SenateGetFilingDetail(statuses, incomplete, additional) ==
    LET tried == SenateDetailRequests(statuses, 1)
        found == tried[Len(tried)].status = 200
    IN  IF ~found THEN [requests |-> tried, detail |-> Detail("error", DetailUnavailable)]
        ELSE [requests |-> IF incomplete THEN tried \o <<Request("direct", additional)>>
                           ELSE tried,
              detail |-> Detail("live", Null)]

SenateDetailStatuses == {200, 404, Exception}

CallGetFilingDetail ==
    /\ pc = "idle"
    /\ \E filing_id \in FilingIds, status \in DetailStatuses :
         \E body \in IF status = 200 THEN DetailBodies ELSE {"none"} :
         \E r \in {ImprovedGetFilingDetail(use_mock_data, filing_id, status, body)} :
           /\ call' = [op |-> "get_filing_detail", filing_id |-> filing_id]
           /\ api' = r.requests
           /\ ret' = r.detail
    /\ pc' = "returned"
    /\ UNCHANGED <<use_mock_data, rng, flashes, history, threads, cache>>

CallSenateGetFilingDetail ==
    /\ pc = "idle"
    /\ \E filing_id \in FilingIds, incomplete \in BOOLEAN,
          statuses \in [1..4 -> SenateDetailStatuses], additional \in SenateDetailStatuses :
         \E r \in {SenateGetFilingDetail(statuses, incomplete, additional)} :
           /\ call' = [op |-> "senate_get_filing_detail", filing_id |-> filing_id]
           /\ api' = r.requests
           /\ ret' = r.detail
    /\ pc' = "returned"
    /\ UNCHANGED <<use_mock_data, rng, flashes, history, threads, cache>>

NextDetail == CallGetFilingDetail \/ CallSenateGetFilingDetail \/ Return

SpecDetail == InitApp /\ [][NextDetail]_vars

FailedDirectAt(i) == api[i].kind = "direct" /\ api[i].status # 200

SearchAt(i) == api[i].kind = "search"

\* C16: a search-by-id request is made only after a direct lookup failed; the
\* mock detail is returned only for a mock id (or in mock mode) or after a
\* direct lookup and a search-by-id both failed; and when a direct lookup
\* failed, no mock detail or error is returned before a search-by-id was
\* attempted.
C16_DetailFallbackOrder ==
    Returned({"get_filing_detail", "senate_get_filing_detail"}) =>
        /\ \A i \in 1..Len(api) :
               SearchAt(i) => \E j \in 1..(i-1) : FailedDirectAt(j)
        /\ ret.source = "mock" =>
               \/ use_mock_data
               \/ LooksLikeMockId(call.filing_id)
               \/ /\ \E j \in 1..Len(api) : FailedDirectAt(j)
                  /\ \E i \in 1..Len(api) : SearchAt(i) /\ api[i].status # 200
        /\ (ret.source \in {"mock", "error"} /\ \E j \in 1..Len(api) : FailedDirectAt(j)) =>
               \E i \in 1..Len(api) : SearchAt(i)

(***************************************************************************)
(* Two requests inside _mock_search_results at once (app.py serves with    *)
(* app.run, whose server handles each request in its own thread, and       *)
(* app.senate_lda is one shared object).  Every call on the `random`       *)
(* module is one step on the one process-global generator; the steps of    *)
(* the two threads interleave freely.                                      *)
(***************************************************************************)
ThreadIds == {1, 2}

\* The locals of a thread that has just entered _mock_search_results.
ThreadEntered(query, filing_year, page, page_size) ==
    LET q == LowerStrip(query)
        hash_val == HashVal(q)
        start_index == (page - 1) * page_size
    IN  [ pos |-> "seed", query |-> q, hash_val |-> hash_val, filing_year |-> filing_year,
          page |-> page, page_size |-> page_size, start_index |-> start_index,
          n |-> Min(page_size, Max(0, MockBaseCount(hash_val) - start_index)),
          i |-> 0, u |-> 0, d |-> <<>>, mock_results |-> <<>> ]

\* The filing of one iteration from the values the thread drew: u is the
\* generator's state at the uuid draw, d the states at the six later draws.
MockFilingOf(query, hash_val, real_index, filing_year, u, d) ==
    LET filing_month == RandInt(d[1], 1, 12)
        filing_day == RandInt(d[2], 1, 28)
        base_amount == RandInt(d[3], 20, 500) * 1000
        rounded_amount == RoundThousands(base_amount + RandInt(d[4], -5000, 5000))
        use_income == RandAbove(d[5], 3)
        second_activity == RandAbove(d[6], 5)
    IN  [ id |-> Null,
          filing_uuid |-> <<Prefix4(query), hash_val % 10000, real_index, RandInt(u, 1000, 9999)>>,
          filing_date |-> <<"<missing>">>,
          filing_year |-> filing_year,
          posted_date |-> NoDate,
          dt_posted |-> [y |-> filing_year, m |-> filing_month, d |-> filing_day],
          client |-> real_index % 24,
          registrant |-> real_index % 16,
          income |-> IF use_income THEN rounded_amount ELSE 0,
          expenses |-> IF use_income THEN 0 ELSE rounded_amount,
          activities |-> IF second_activity THEN 2 ELSE 1,
          is_mock |-> MockMeta(query).is_mock,
          keys |-> MockFilingKeys ]

DrawsPerFiling == 6

StartMockThreads ==
    /\ pc = "idle"
    /\ threads = NoThreads
    /\ \E q1 \in Queries, q2 \in Queries, p1 \in 1..MaxPage, p2 \in 1..MaxPage,
          ps1 \in 1..ThreadPageSize, ps2 \in 1..ThreadPageSize :
           threads' = <<ThreadEntered(q1, 2024, p1, ps1), ThreadEntered(q2, 2024, p2, ps2)>>
    /\ pc' = "threads"
    /\ UNCHANGED <<call, api, ret, use_mock_data, rng, flashes, history, cache>>

\* "random.seed(hash_val)"
ThreadSeed(t) ==
    /\ pc = "threads"
    /\ threads[t].pos = "seed"
    /\ rng' = MockSeed(rng, threads[t].hash_val)
    /\ threads' = [threads EXCEPT ![t].pos = IF threads[t].n = 0 THEN "done" ELSE "uuid"]
    /\ UNCHANGED <<pc, call, api, ret, use_mock_data, flashes, history, cache>>

\* "uuid = f"...-{random.randint(1000, 9999)}""
ThreadUuid(t) ==
    /\ pc = "threads"
    /\ threads[t].pos = "uuid"
    /\ rng' = RandStep(rng)
    /\ threads' = [threads EXCEPT ![t].u = rng, ![t].pos = "reseed"]
    /\ UNCHANGED <<pc, call, api, ret, use_mock_data, flashes, history, cache>>

\* "random.seed(hash_val + real_index)"
ThreadReseed(t) ==
    /\ pc = "threads"
    /\ threads[t].pos = "reseed"
    /\ rng' = RandSeed(threads[t].hash_val + threads[t].start_index + threads[t].i)
    /\ threads' = [threads EXCEPT ![t].d = <<>>, ![t].pos = "draw"]
    /\ UNCHANGED <<pc, call, api, ret, use_mock_data, flashes, history, cache>>

\* One of the six draws of an iteration; after the last one the filing is
\* appended and the loop goes on or ends.
ThreadDraw(t) ==
    /\ pc = "threads"
    /\ threads[t].pos = "draw"
    /\ rng' = RandStep(rng)
    /\ \E th \in {threads[t]}, d \in {Append(threads[t].d, rng)} :
         threads' =
           IF Len(d) < DrawsPerFiling THEN [threads EXCEPT ![t].d = d]
           ELSE [threads EXCEPT
                   ![t].d = <<>>,
                   ![t].mock_results =
                       Append(th.mock_results,
                              MockFilingOf(th.query, th.hash_val, th.start_index + th.i,
                                           th.filing_year, th.u, d)),
                   ![t].i = th.i + 1,
                   ![t].pos = IF th.i + 1 < th.n THEN "uuid" ELSE "done"]
    /\ UNCHANGED <<pc, call, api, ret, use_mock_data, flashes, history, cache>>

\* both requests have been answered
ThreadsReturn ==
    /\ pc = "threads"
    /\ \A t \in ThreadIds : threads[t].pos = "done"
    /\ pc' = "answered"
    /\ UNCHANGED <<call, api, ret, use_mock_data, rng, flashes, history, threads, cache>>

NextThreads ==
    \/ StartMockThreads
    \/ \E t \in ThreadIds : ThreadSeed(t)
    \/ \E t \in ThreadIds : ThreadUuid(t)
    \/ \E t \in ThreadIds : ThreadReseed(t)
    \/ \E t \in ThreadIds : ThreadDraw(t)
    \/ ThreadsReturn

SpecThreads == InitLive /\ [][NextThreads]_vars

\* What the call of thread t returns when it runs with no other call.
ResultsAlone(th) ==
    MockSearchResults(0, th.query, th.filing_year, th.page, th.page_size).results

\* C17: a mock search call whose steps interleave with another one's returns
\* the result list it returns when it runs alone.
C17_ConcurrentCallsIndependent ==
    pc \in {"threads", "answered"} =>
        \A t \in ThreadIds :
            threads[t].pos = "done" => threads[t].mock_results = ResultsAlone(threads[t])

(***************************************************************************)
(* utils/caching.py Cache.  A cache file is a record of its key, its size  *)
(* (in MB), its expiry time and its modification time; cache.now is        *)
(* time.time().                                                            *)
(***************************************************************************)
CacheKeys == {"k1", "k2", "k3"}

EntrySizes == {1, 2}

ExpiresIn == {1, 2}

CacheFile(key, size, expires, mtime) ==
    [key |-> key, size |-> size, expires |-> expires, mtime |-> mtime]

RECURSIVE TotalSize(_)
TotalSize(files) ==
    IF files = {} THEN 0
    ELSE LET f == CHOOSE x \in files : TRUE IN f.size + TotalSize(files \ {f})

FileOf(files, key) == {f \in files : f.key = key}

\* Cache.set: the file of the key is written anew; nothing else is touched.
CacheSetFiles(files, now, key, size, expires_in) ==
    (files \ FileOf(files, key)) \cup {CacheFile(key, size, now + expires_in, now)}

\* Cache.get: a missing file gives None, an expired one is removed.
CacheGetResult(files, now, key) ==
    IF FileOf(files, key) = {} THEN [files |-> files, hit |-> FALSE]
    ELSE IF \E f \in FileOf(files, key) : f.expires < now
         THEN [files |-> files \ FileOf(files, key), hit |-> FALSE]
         ELSE [files |-> files, hit |-> TRUE]

Unexpired(files, now) == {f \in files : ~(f.expires < now)}

Oldest(files) == {f \in files : \A g \in files : f.mtime <= g.mtime}

\* "while total_size_mb > self.max_size_mb and cache_files": oldest files
\* first; files of equal mtime go in the order the directory lists them.
RECURSIVE EvictOldest(_, _)
EvictOldest(files, max_size_mb) ==
    IF TotalSize(files) > max_size_mb /\ files # {}
    THEN UNION {EvictOldest(files \ {f}, max_size_mb) : f \in Oldest(files)}
    ELSE {files}

\* Cache.cleanup: the directories it can leave.
CacheCleanupFiles(files, now, max_size_mb) ==
    EvictOldest(Unexpired(files, now), max_size_mb)

CacheCall(op, key) == [op |-> op, key |-> key]

\* cached(): "cache_instance.set(cache_key, result, expires_in)"
CacheSet ==
    /\ pc = "idle"
    /\ \E key \in CacheKeys, size \in EntrySizes, expires_in \in ExpiresIn :
           /\ cache' = [cache EXCEPT
                          !.files = CacheSetFiles(cache.files, cache.now, key, size, expires_in)]
           /\ call' = CacheCall("cache_set", key)
    /\ ret' = [value |-> TRUE]
    /\ pc' = "returned"
    /\ UNCHANGED <<api, use_mock_data, rng, flashes, history, threads>>

CacheGet ==
    /\ pc = "idle"
    /\ \E key \in CacheKeys :
         \E r \in {CacheGetResult(cache.files, cache.now, key)} :
           /\ cache' = [cache EXCEPT !.files = r.files]
           /\ call' = CacheCall("cache_get", key)
           /\ ret' = [value |-> r.hit]
    /\ pc' = "returned"
    /\ UNCHANGED <<api, use_mock_data, rng, flashes, history, threads>>

CacheDelete ==
    /\ pc = "idle"
    /\ \E key \in CacheKeys :
           /\ cache' = [cache EXCEPT !.files = cache.files \ FileOf(cache.files, key)]
           /\ call' = CacheCall("cache_delete", key)
           /\ ret' = [value |-> FileOf(cache.files, key) # {}]
    /\ pc' = "returned"
    /\ UNCHANGED <<api, use_mock_data, rng, flashes, history, threads>>

\* Cache.__init__ on the existing directory (a restart of the process): its
\* only statement that touches the files is self.cleanup().
CacheInit ==
    /\ pc = "idle"
    /\ \E files \in CacheCleanupFiles(cache.files, cache.now, MaxSizeMb) :
           cache' = [cache EXCEPT !.files = files]
    /\ call' = CacheCall("cache_init", Null)
    /\ ret' = [value |-> TRUE]
    /\ pc' = "returned"
    /\ UNCHANGED <<api, use_mock_data, rng, flashes, history, threads>>

\* time passes
Tick ==
    /\ pc = "idle"
    /\ cache.now < MaxClock
    /\ cache' = [cache EXCEPT !.now = cache.now + 1]
    /\ UNCHANGED <<pc, call, api, ret, use_mock_data, rng, flashes, history, threads>>

NextCache == CacheSet \/ CacheGet \/ CacheDelete \/ CacheInit \/ Tick \/ Return

SpecCache == InitLive /\ [][NextCache]_vars

\* C18: the total size of the stored entries never exceeds max_size_mb.
C18_CacheBounded == TotalSize(cache.files) <= MaxSizeMb

(***************************************************************************)
(* Date resolution of _process_filing as a pure function: senate_lda.py    *)
(* 489-535 and enhanced_senate_lda.py 272-285.  A field value is a record  *)
(* of its kind and of the date it spells:                                  *)
(*   "iso"      a string that starts with a valid YYYY-MM-DD               *)
(*   "isobad"   a string that starts with digits of that form, no date     *)
(*   "embedded" a string with a YYYY-MM-DD inside                          *)
(*   "slash"    a string with a MM/DD/YYYY inside                          *)
(*   "text"     a string without a date, "empty" the string "",            *)
(*   "number"   a value that is not a string, "absent" no such key.        *)
(***************************************************************************)
DateValue(kind, date) == [kind |-> kind, date |-> date]

DateFieldsToCheck ==
    <<"received_date", "filing_date", "date", "effective_date", "created",
      "updated", "modified", "submission_date", "dt_posted">>

EnhancedDateFields == <<"received_date", "filing_date", "date", "effective_date">>

\* filing[key] for a key of the model's objects, "absent" for any other key
FieldOf(raw, key) ==
    IF key \in DOMAIN raw.fields THEN raw.fields[key] ELSE DateValue("absent", NoDate)

\* "if date_field in filing and filing[date_field]", then the match at the
\* start of str(value) and strptime on its first ten characters
RECURSIVE FirstIsoField(_, _, _)
FirstIsoField(raw, fields, i) ==
    IF i > Len(fields) THEN Unknown
    ELSE IF FieldOf(raw, fields[i]).kind = "iso"
         THEN Strftime(FieldOf(raw, fields[i]).date)
         ELSE FirstIsoField(raw, fields, i + 1)

\* "for key, value in filing.items()": the first string value in which a
\* YYYY-MM-DD or a MM/DD/YYYY is found and parses
RECURSIVE FirstEmbedded(_, _)
FirstEmbedded(raw, i) ==
    IF i > Len(raw.order) THEN Unknown
    ELSE IF raw.fields[raw.order[i]].kind \in {"iso", "embedded", "slash"}
         THEN Strftime(raw.fields[raw.order[i]].date)
         ELSE FirstEmbedded(raw, i + 1)

SenateResolveDate(raw) ==
    IF FirstIsoField(raw, DateFieldsToCheck, 1) # Unknown
    THEN FirstIsoField(raw, DateFieldsToCheck, 1)
    ELSE FirstEmbedded(raw, 1)

EnhancedResolveDate(raw) == FirstIsoField(raw, EnhancedDateFields, 1)

DateValues ==
    {DateValue(k, NoDate) : k \in {"absent", "empty", "isobad", "text", "number"}}
    \cup {DateValue("iso", D2023), DateValue("embedded", D2024), DateValue("slash", D1899)}

RawDateKeys == {"received_date", "effective_date", "dt_posted", "description"}

\* the order in which the JSON object lists its keys
RawDateOrders ==
    {<<"received_date", "effective_date", "dt_posted", "description">>,
     <<"description", "dt_posted", "effective_date", "received_date">>}

RawDated == [fields : [RawDateKeys -> DateValues], order : RawDateOrders]

CallResolveDate ==
    /\ pc = "idle"
    /\ \E raw \in RawDated, source \in {"senate", "enhanced"} :
           /\ call' = [op |-> "resolve_date", source |-> source, raw |-> raw]
           /\ ret' = [filing_date |-> IF source = "senate" THEN SenateResolveDate(raw)
                                      ELSE EnhancedResolveDate(raw)]
    /\ pc' = "returned"
    /\ UNCHANGED <<api, use_mock_data, rng, flashes, history, threads, cache>>

NextDates == CallResolveDate \/ Return

SpecDates == InitLive /\ [][NextDates]_vars

StartsWithDate(v) == v.kind = "iso"

HoldsDate(v) == v.kind \in {"iso", "embedded", "slash"}

\* C21: the filing date is the "Mon DD, YYYY" form of the first of the nine
\* date fields that starts with a valid YYYY-MM-DD; with no such field, of
\* the first date embedded in a string-valued field; and "Unknown" only when
\* no field holds a date.  A record whose only date is in dt_posted is dated.
C21_ResolveDateTwoTiers ==
    Returned({"resolve_date"}) =>
        LET raw == call.raw
            tier1 == {i \in 1..Len(DateFieldsToCheck) :
                          StartsWithDate(FieldOf(raw, DateFieldsToCheck[i]))}
            tier2 == {i \in 1..Len(raw.order) : HoldsDate(raw.fields[raw.order[i]])}
            first1 == CHOOSE i \in tier1 : \A j \in tier1 : i <= j
            first2 == CHOOSE i \in tier2 : \A j \in tier2 : i <= j
        IN  ret.filing_date =
                IF tier1 # {} THEN Strftime(FieldOf(raw, DateFieldsToCheck[first1]).date)
                ELSE IF tier2 # {} THEN Strftime(raw.fields[raw.order[first2]].date)
                ELSE Unknown

(***************************************************************************)
(* The requests one search issues, in order, read off the call and the     *)
(* answers it got.  A request is its endpoint, its query parameter and the *)
(* year bounds its URL carries (0: none).                                  *)
(***************************************************************************)
Req(endpoint, param, gte, lte) ==
    [endpoint |-> endpoint, param |-> param,
     filing_year__gte |-> gte, filing_year__lte |-> lte]

\* senate_lda.py: the year bounds are appended to the URLs built so far; the
\* two ".../search/" fallbacks are appended to search_urls after that.
SenateUrlWithYears(c, i) ==
    LET url == SenateSearchUrls(c.is_person)[i]
        built_before == url.endpoint \notin {"registrants/search/", "clients/search/"}
    IN  Req(url.endpoint, url.param,
            IF built_before THEN c.year_from ELSE 0,
            IF built_before THEN c.year_to ELSE 0)

\* "for search_url in search_urls": up to the first 200, all of them if none
SenateStrategyRequests(c, a) ==
    [i \in 1..(IF a.ok = 0 THEN Len(SenateSearchUrls(c.is_person)) ELSE a.ok) |->
        SenateUrlWithYears(c, i)]

\* "filings/?{entity_type}={entity_id}&page=1&page_size={page_size}"
SenateHopRequests(c, a) ==
    [i \in 1..Len(a.hops) |-> Req("filings/", "entity_id", 0, 0)]

\* enhanced_senate_lda.py: every pattern is requested, each with the bounds
EnhancedStrategyRequests(c) ==
    [i \in 1..Len(EnhancedPatterns(c.is_person)) |->
        Req("filings/", EnhancedPatterns(c.is_person)[i], c.year_from, c.year_to)]

StrategyRequests ==
    IF call.op = "senate" THEN SenateStrategyRequests(call, api)
    ELSE EnhancedStrategyRequests(call)

SpecificFields(is_person) ==
    IF is_person THEN {"lobbyist_name"} ELSE {"client_name", "registrant_name"}

IssuedAt(reqs, param) == {i \in 1..Len(reqs) : reqs[i].param = param}

\* C22: an organization search issues the client_name request and then the
\* registrant_name request, whatever the first one returns; a person search
\* issues the lobbyist_name request first; and no full-text search request
\* is issued before the specific-field requests of the search.
C22_StrategyOrder ==
    Returned({"senate", "enhanced"}) =>
        LET reqs == StrategyRequests IN
        /\ ~call.is_person =>
               \E i \in IssuedAt(reqs, "client_name") :
                   \E j \in IssuedAt(reqs, "registrant_name") : i < j
        /\ call.is_person => reqs[1].param = "lobbyist_name"
        /\ \A s \in IssuedAt(reqs, "search") :
               \A p \in SpecificFields(call.is_person) :
                   \E i \in IssuedAt(reqs, p) : i < s

\* every request of the call: the strategy requests, then the second hops
AllRequests ==
    IF call.op = "senate" THEN StrategyRequests \o SenateHopRequests(call, api)
    ELSE StrategyRequests

\* C23: when year_from or year_to is given, every request of the search
\* carries it as filing_year__gte or filing_year__lte.
C23_EveryRequestCarriesYears ==
    Returned({"senate", "enhanced"}) =>
        \A i \in 1..Len(AllRequests) :
            /\ call.year_from # 0 => AllRequests[i].filing_year__gte = call.year_from
            /\ call.year_to # 0 => AllRequests[i].filing_year__lte = call.year_to

(***************************************************************************)
(* One GET through self.session of ImprovedSenateLDADataSource             *)
(* (improved_senate_lda.py 52-63, used at 183-188).  The session's adapter *)
(* is HTTPAdapter(max_retries=Retry(total=3, backoff_factor=0.5,           *)
(* status_forcelist=[500, 502, 503, 504])): urllib3 counts `total` down    *)
(* by one for every answer whose status is in the forcelist and gives up   *)
(* when the count would fall below zero.  api is the list of the statuses  *)
(* the attempts got.                                                       *)
(***************************************************************************)
RetryTotal == 3

StatusForcelist == {500, 502, 503, 504}

ServerStatuses == {200, 401, 429} \cup StatusForcelist

\* Retry.is_exhausted after the increment for the answers seen so far
RetriesExhausted(statuses) == RetryTotal - Len(statuses) < 0

SessionGetStart ==
    /\ pc = "idle"
    /\ call' = [op |-> "session_get"]
    /\ api' = <<>>
    /\ pc' = "requesting"
    /\ UNCHANGED <<ret, use_mock_data, rng, flashes, history, threads, cache>>

\* urllib3 also sends again after a 413, 429 or 503 that carries a
\* Retry-After header
RetryAfterStatusCodes == {413, 429, 503}

\* Retry.is_retry
IsRetry(status, has_retry_after) ==
    \/ status \in StatusForcelist
    \/ has_retry_after /\ status \in RetryAfterStatusCodes

\* one attempt: the answer is returned, or the request is sent again after
\* the backoff sleep, or the retries are exhausted
SessionGetAttempt ==
    /\ pc = "requesting"
    /\ \E status \in ServerStatuses, has_retry_after \in BOOLEAN :
         \E statuses \in {Append(api, status)} :
           /\ api' = statuses
           /\ IF ~IsRetry(status, has_retry_after)
              THEN pc' = "returned" /\ ret' = [status |-> status, raised |-> Null]
              ELSE IF RetriesExhausted(statuses)
              THEN pc' = "returned" /\ ret' = [status |-> status, raised |-> "RetryError"]
              ELSE pc' = "requesting" /\ ret' = ret
    /\ UNCHANGED <<call, use_mock_data, rng, flashes, history, threads, cache>>

NextRetry == SessionGetStart \/ SessionGetAttempt \/ Return

SpecRetry == InitLive /\ [][NextRetry]_vars

RetriedStatuses == {429, 500, 502, 503, 504}

\* C24: a GET is attempted at most 3 times; one that answers only 429, 500,
\* 502, 503 or 504 is attempted more than once; one whose answer is any
\* other status is attempted exactly once.
C24_AtMostThreeAttempts ==
    Returned({"session_get"}) =>
        /\ Len(api) <= 3
        /\ api[1] \notin RetriedStatuses => Len(api) = 1
        /\ (\A i \in 1..Len(api) : api[i] \in RetriedStatuses) => Len(api) > 1

\* the posted date of a returned record is known
DateKnown(filing) == filing.posted_date # NoDate

\* C25: the live results of the Improved search are most recent first: of
\* two adjacent records with known dates the first is not the earlier one.
C25_ImprovedMostRecentFirst ==
    (Returned({"improved"}) /\ ret.error = Null) =>
        \A i \in 1..(Len(ret.results) - 1) :
            (DateKnown(ret.results[i]) /\ DateKnown(ret.results[i + 1])) =>
                DateOrd(ret.results[i].posted_date) >= DateOrd(ret.results[i + 1].posted_date)

\* C26: a Senate search issues each strategy URL at most once, and after an
\* entity endpoint answered it issues at most 5 second-hop requests, one
\* for each of the first 5 entities listed, however many there are.
C26_BoundedFanOut ==
    Returned({"senate"}) =>
        LET reqs == SenateStrategyRequests(call, api) IN
        /\ Len(reqs) <= Len(SenateSearchUrls(call.is_person))
        /\ \A i, j \in 1..Len(reqs) : reqs[i] = reqs[j] => i = j
        /\ Len(api.hops) <= 5
        /\ Len(api.hops) <= Len(api.body.results)
        /\ api.hops # <<>> => SenateIsEntityUrl(SenateSearchUrls(call.is_person)[api.ok])

\* An entity endpoint listed six entities and five second hops were made.
C26_Witness ==
    /\ Returned({"senate"})
    /\ api.ok # 0
    /\ SenateIsEntityUrl(SenateSearchUrls(call.is_person)[api.ok])
    /\ Len(api.body.results) = 6
    /\ Len(api.hops) = 5

(***************************************************************************)
(* The Enhanced search against fixed upstream data: the API holds the list *)
(* `data` for the query and answers page p of size page_size with that     *)
(* slice and the full count.  search_filings is called once for every      *)
(* page.                                                                   *)
(***************************************************************************)
\* the API's answer to "...&page={p}&page_size={page_size}"
UpstreamPage(data, p, page_size) ==
    Paged(Len(data), PySlice(data, (p - 1) * page_size, p * page_size))

\* the answers one call gets: the first request asks for the requested page
\* ("page={page}" in the pattern), the further ones for pages 2..total_pages
EnhancedAnswersFor(data, c) ==
    [i \in 1..Len(EnhancedPatterns(c.is_person)) |->
        [first |-> UpstreamPage(data, c.page, c.page_size),
         more |-> [p \in EnhancedExtraPages(Len(data), c.page_size, c.max_pages) |->
                       UpstreamPage(data, p, c.page_size)]]]

EnhancedCallFor(is_person, page, page_size) ==
    [op |-> "enhanced", is_person |-> is_person, page |-> page, page_size |-> page_size,
     year_from |-> 0, year_to |-> 0, max_pages |-> DefaultMaxPages]

CallEnhancedPages ==
    /\ pc = "idle"
    /\ \E data \in SeqsUpTo(RawFilings, MaxData), is_person \in BOOLEAN,
          page_size \in 1..MaxPageSize :
           /\ call' = [op |-> "enhanced_pages", data |-> data, page_size |-> page_size]
           /\ ret' = [by_page |->
                        [p \in 1..MaxData |->
                            EnhancedSearchFilings(
                                EnhancedCallFor(is_person, p, page_size),
                                EnhancedAnswersFor(data, EnhancedCallFor(is_person, p, page_size)))]]
    /\ pc' = "returned"
    /\ UNCHANGED <<api, use_mock_data, rng, flashes, history, threads, cache>>

NextPages == CallEnhancedPages \/ Return

SpecPages == InitLive /\ [][NextPages]_vars

\* C27: for fixed upstream data the pages 1..total_pages are consecutive
\* slices of one deduplicated, sorted list: total_count is the same on
\* every page and the pages together are that list.
C27_PagesSliceOneList ==
    Returned({"enhanced_pages"}) =>
        LET r == ret.by_page
            n == r[1].pagination.total_pages
            whole == EnhancedSort(EnhancedDedup(r[1].all_results))
        IN  /\ \A p \in 1..n : r[p].total_count = r[1].total_count
            /\ Concat([p \in 1..n |-> r[p].results]) = whole

-----------------------------------------------------------------------------
(* The mock dataset under different paginations *)

\* the global index of item i of the page a generator call asked for
MockIndexOf(c, i) == (c.page - 1) * c.page_size + (i - 1)

\* C28: the mock record at global index k of a query's dataset is the same
\* record, filing_uuid included, under every pagination that contains k.
C28_MockRecordPerIndex ==
    (/\ Returned({"mock"})
     /\ history # <<>>
     /\ LowerStrip(history[1].call.args.query) = LowerStrip(call.args.query)
     /\ history[1].call.args.filing_year = call.args.filing_year) =>
        \A i \in 1..Len(ret.results), j \in 1..Len(history[1].ret.results) :
            MockIndexOf(call.args, i) = MockIndexOf(history[1].call.args, j)
                => ret.results[i] = history[1].ret.results[j]

-----------------------------------------------------------------------------
(* Where the records of a Senate search come from *)

\* the filing objects the filings/ requests of a Senate call delivered
SenateFilingObjects(c, a) ==
    IF a.ok = 0 THEN {}
    ELSE IF SenateIsEntityUrl(SenateSearchUrls(c.is_person)[a.ok])
    THEN UNION {{a.hops[i].results[j] : j \in 1..Len(a.hops[i].results)} :
                    i \in {k \in 1..Len(a.hops) : a.hops[k].status = 200}}
    ELSE {a.body.results[j] : j \in 1..Len(a.body.results)}

\* C29: every record a Senate search returns is the normalization of a
\* filing object from a filings/ request: entity records are never returned
\* as filings, and an entity response in paged form is not an error.
C29_OnlyFilingsReturned ==
    Returned({"senate"}) =>
        /\ \A i \in 1..Len(ret.results) :
               \E f \in SenateFilingObjects(call, api) :
                   ret.results[i] = SenateProcessFiling(f)
        /\ (/\ api.ok # 0
            /\ SenateIsEntityUrl(SenateSearchUrls(call.is_person)[api.ok])
            /\ api.body.shape = "paged") => ret.error = Null


-----------------------------------------------------------------------------
(* What the Improved detail lookup hands to the filing page *)

\* C30: the Improved get_filing_detail returns, whatever the upstream does,
\* a filing that is not None together with no error; never (None, None).
C30_DetailNeverEmpty ==
    Returned({"get_filing_detail"}) =>
        /\ ret.source # "none"
        /\ ret.error = Null

====
